---- MODULE Spec2Model ----
(***************************************************************************)
(* Budget tracker (src/src/App.jsx): the App component's state, its        *)
(* handlers and effects, the currency conversion and the summary.          *)
(*                                                                         *)
(* Numbers.  JavaScript numbers are modelled as exact rationals <<n, d>>   *)
(* in lowest terms with d > 0, plus the three exceptional values           *)
(* NaN = <<0,0>>, +Infinity = <<1,0>> and -Infinity = <<-1,0>>.  Rounding  *)
(* of binary floating point is not modelled.                               *)
(*                                                                         *)
(* Strings that the code parses, trims or formats (the staged label and    *)
(* amount) are sequences of one-character strings; the other strings are   *)
(* only compared and are TLA+ strings.                                     *)
(***************************************************************************)
EXTENDS Integers, Sequences, FiniteSets, TLC

VARIABLES
    entries,        \* useState: the entry list (App.jsx:49)
    editingId,      \* useState: the edit target or NULL (App.jsx:50)
    currentFilter,  \* useState: 'all' | 'income' | 'expense' (App.jsx:51)
    currency,       \* useState: the display currency (App.jsx:52)
    isDarkMode,     \* useState (App.jsx:53)
    exchangeRates,  \* useState: the rate table (App.jsx:54)
    ratesLoading,   \* useState (App.jsx:55)
    formValues,     \* useState: the staged form values (App.jsx:57)
    summary,        \* the memoised value of useMemo (App.jsx:269)
    sortedEntries,  \* the memoised list that is rendered (App.jsx:261)
    now,            \* the latest time read from the clock (Date.now(), new Date())
    pending,        \* number of fetchExchangeRates calls awaiting their response
    overtaken,      \* history: how many of them were issued before a call that
                    \* has completed
    lastOp,         \* history: the handler that ran last and what it did
    conv,           \* the inputs and results of a direct use of convertCurrency
    localStorage,   \* window.localStorage: its items, and whether access throws
    uncaughtError   \* an exception has left a render or an effect

vars == <<entries, editingId, currentFilter, currency, isDarkMode, exchangeRates,
          ratesLoading, formValues, summary, sortedEntries, now, pending, overtaken, lastOp, conv,
          localStorage, uncaughtError>>

----------------------------------------------------------------------------
(* Bounds of the model *)

\* longest entry list the create path is followed to
MaxEntries == 2
\* last time the clock is read at
MaxClock == 3
\* most fetches outstanding at once
MaxPending == 2

----------------------------------------------------------------------------
(* Numbers *)

Abs(x) == IF x < 0 THEN -x ELSE x

Sgn(x) == IF x < 0 THEN -1 ELSE IF x > 0 THEN 1 ELSE 0

RECURSIVE GCD(_, _)
GCD(a, b) == IF b = 0 THEN a ELSE GCD(b, a % b)

\* the number n/d; d = 0 gives an infinity or NaN
Norm(n, d) ==
    IF d = 0 THEN <<Sgn(n), 0>>
    ELSE LET g == GCD(Abs(n), Abs(d))
             s == IF d < 0 THEN -1 ELSE 1
         IN  <<(s * n) \div g, (s * d) \div g>>

NaN == <<0, 0>>
Zero == <<0, 1>>
One == <<1, 1>>

IsNaN(x) == x = NaN
IsFinite(x) == x[2] # 0
Neg(x) == <<-x[1], x[2]>>
LtZero(x) == x[1] < 0

Add(x, y) ==
    IF IsNaN(x) \/ IsNaN(y) THEN NaN
    ELSE IF ~IsFinite(x) /\ ~IsFinite(y) THEN (IF x = y THEN x ELSE NaN)
    ELSE IF ~IsFinite(x) THEN x
    ELSE IF ~IsFinite(y) THEN y
    ELSE Norm(x[1] * y[2] + y[1] * x[2], x[2] * y[2])

Sub(x, y) == Add(x, Neg(y))

Mul(x, y) ==
    IF IsNaN(x) \/ IsNaN(y) THEN NaN
    ELSE Norm(x[1] * y[1], x[2] * y[2])

\* x / y with IEEE results for a zero or infinite divisor (zero is +0)
Div(x, y) ==
    IF IsNaN(x) \/ IsNaN(y) THEN NaN
    ELSE IF y[1] = 0 THEN Mul(x, <<1, 0>>)
    ELSE IF y[1] < 0 THEN Mul(x, Norm(-y[2], -y[1]))
    ELSE Mul(x, Norm(y[2], y[1]))

\* a number in a boolean context: 0 and NaN are falsy
TruthyNum(x) == x # Zero /\ ~IsNaN(x)

----------------------------------------------------------------------------
(* Currencies and rate tables *)

CURRENCY_LIST == {"USD", "EUR", "GBP", "JPY", "INR", "CAD", "AUD", "CHF", "CNY", "SGD"}

\* a rate table is a function from the currency codes it holds to numbers
EmptyTable == [c \in {} |-> One]

\* exchangeRates[c]: undefined when the key is absent, NaN in arithmetic
RateOf(rates, c) == IF c \in DOMAIN rates THEN rates[c] ELSE NaN

\* a test that the table holds the key
HasRate_KeyHeld(rates, c) == c \in DOMAIN rates

\* !exchangeRates[c] is false
HasRate(rates, c) == c \in DOMAIN rates /\ TruthyNum(rates[c])

\* lines 225-241 dividing in both directions
PivotThroughUSD_DivideBoth(amount, fromCurrency, toCurrency, rates) ==
    LET amountInUSD == IF fromCurrency = "USD" THEN amount
                       ELSE Div(amount, RateOf(rates, fromCurrency))
    IN  IF toCurrency = "USD" THEN amountInUSD
        ELSE Div(amountInUSD, RateOf(rates, toCurrency))

\* lines 225-241 multiplying in both directions
PivotThroughUSD_MultiplyBoth(amount, fromCurrency, toCurrency, rates) ==
    LET amountInUSD == IF fromCurrency = "USD" THEN amount
                       ELSE Mul(amount, RateOf(rates, fromCurrency))
    IN  IF toCurrency = "USD" THEN amountInUSD
        ELSE Mul(amountInUSD, RateOf(rates, toCurrency))

PivotThroughUSD(amount, fromCurrency, toCurrency, rates) ==
    LET amountInUSD == IF fromCurrency = "USD" THEN amount
                       ELSE Div(amount, RateOf(rates, fromCurrency))
    IN  IF toCurrency = "USD" THEN amountInUSD
        ELSE Mul(amountInUSD, RateOf(rates, toCurrency))

\* convertCurrency without the check of the target rate (line 223)
convertCurrency_NoTargetCheck(amount, fromCurrency, toCurrency, rates) ==
    IF fromCurrency = toCurrency THEN amount
    ELSE IF DOMAIN rates = {} THEN amount
    ELSE IF ~HasRate(rates, fromCurrency) /\ fromCurrency # "USD" THEN amount
    ELSE PivotThroughUSD(amount, fromCurrency, toCurrency, rates)

\* convertCurrency that takes every amount to be in USD already and has no
\* shortcut for equal currencies
convertCurrency_FromBaseOnly(amount, fromCurrency, toCurrency, rates) ==
    IF DOMAIN rates = {} THEN amount
    ELSE IF ~HasRate(rates, toCurrency) /\ toCurrency # "USD" THEN amount
    ELSE PivotThroughUSD(amount, "USD", toCurrency, rates)

convertCurrency(amount, fromCurrency, toCurrency, rates) ==
    IF fromCurrency = toCurrency THEN amount
    ELSE IF DOMAIN rates = {} THEN amount
    ELSE IF ~HasRate(rates, fromCurrency) /\ fromCurrency # "USD" THEN amount
    ELSE IF ~HasRate(rates, toCurrency) /\ toCurrency # "USD" THEN amount
    ELSE PivotThroughUSD(amount, fromCurrency, toCurrency, rates)

\* the divisors of the divisions that a call of convertCurrency evaluates: the
\* rate of the source in line 231, when the call gets there (lines 218-231)
DivisorsOf(fromCurrency, toCurrency, rates) ==
    IF fromCurrency = toCurrency THEN {}
    ELSE IF DOMAIN rates = {} THEN {}
    ELSE IF ~HasRate(rates, fromCurrency) /\ fromCurrency # "USD" THEN {}
    ELSE IF ~HasRate(rates, toCurrency) /\ toCurrency # "USD" THEN {}
    ELSE IF fromCurrency = "USD" THEN {}
    ELSE {RateOf(rates, fromCurrency)}

----------------------------------------------------------------------------
(* Strings *)

DigitChars == <<"0", "1", "2", "3", "4", "5", "6", "7", "8", "9">>

IsDigit(ch) == \E i \in 1..10 : DigitChars[i] = ch

DigitVal(ch) == (CHOOSE i \in 1..10 : DigitChars[i] = ch) - 1

RECURSIVE Pow10(_)
Pow10(k) == IF k = 0 THEN 1 ELSE 10 * Pow10(k - 1)

RECURSIVE SkipSpaces(_)
SkipSpaces(s) == IF s # <<>> /\ Head(s) = " " THEN SkipSpaces(Tail(s)) ELSE s

RECURSIVE DropTrailingSpaces(_)
DropTrailingSpaces(s) ==
    IF s # <<>> /\ s[Len(s)] = " " THEN DropTrailingSpaces(SubSeq(s, 1, Len(s) - 1))
    ELSE s

\* String.prototype.trim
Trim(s) == DropTrailingSpaces(SkipSpaces(s))

\* the longest prefix of s made of digits
RECURSIVE DigitPrefix(_)
DigitPrefix(s) ==
    IF s # <<>> /\ IsDigit(Head(s)) THEN <<Head(s)>> \o DigitPrefix(Tail(s)) ELSE <<>>

RECURSIVE DigitsValue(_)
DigitsValue(ds) ==
    IF ds = <<>> THEN 0 ELSE 10 * DigitsValue(SubSeq(ds, 1, Len(ds) - 1)) + DigitVal(ds[Len(ds)])

\* parseFloat: leading blanks, a sign, digits, a fraction; what follows is
\* ignored; NaN when no digit is read (exponents and the literal Infinity are
\* not modelled, -0 is 0)
parseFloat(s) ==
    LET t == SkipSpaces(s)
        signed == t # <<>> /\ Head(t) \in {"-", "+"}
        sign == IF t # <<>> /\ Head(t) = "-" THEN -1 ELSE 1
        u == IF signed THEN Tail(t) ELSE t
        ip == DigitPrefix(u)
        r == SubSeq(u, Len(ip) + 1, Len(u))
        fp == IF r # <<>> /\ Head(r) = "." THEN DigitPrefix(Tail(r)) ELSE <<>>
    IN  IF ip = <<>> /\ fp = <<>> THEN NaN
        ELSE Norm(sign * (DigitsValue(ip) * Pow10(Len(fp)) + DigitsValue(fp)), Pow10(Len(fp)))

RECURSIVE NatToDigits(_)
NatToDigits(n) ==
    IF n < 10 THEN <<DigitChars[n + 1]>> ELSE NatToDigits(n \div 10) \o <<DigitChars[(n % 10) + 1]>>

\* the decimal digits of r/d, 0 <= r < d, at most k of them
RECURSIVE FracToDigits(_, _, _)
FracToDigits(r, d, k) ==
    IF r = 0 \/ k = 0 THEN <<>>
    ELSE <<DigitChars[((10 * r) \div d) + 1]>> \o FracToDigits((10 * r) % d, d, k - 1)

\* String(number): decimal notation, no trailing zeros, at most 17 digits of
\* fraction (exponent notation is not modelled)
NumberToString(x) ==
    IF IsNaN(x) THEN <<"N", "a", "N">>
    ELSE IF ~IsFinite(x) THEN (IF x[1] < 0 THEN <<"-">> ELSE <<>>) \o <<"I", "n", "f", "i", "n", "i", "t", "y">>
    ELSE LET a == Abs(x[1])
             fd == FracToDigits(a % x[2], x[2], 17)
         IN  (IF x[1] < 0 THEN <<"-">> ELSE <<>>)
             \o NatToDigits(a \div x[2])
             \o (IF fd = <<>> THEN <<>> ELSE <<".">> \o fd)

----------------------------------------------------------------------------
(* The App component: values *)

\* editingId when no entry is being edited
NULL == -1

\* an entry read from storage may lack the currency field
NoCurrency == ""

\* a falsy edit target: null, or the number 0
FalsyId(id) == id = NULL \/ id = 0

\* the form values set by useState and by resetForm, for display currency cur
DefaultForm(cur) ==
    [type |-> "income", label |-> <<>>, amount |-> <<>>, category |-> "",
     entryCurrency |-> cur]

\* new Date().toISOString() and new Date(date).getTime(): a date is kept as
\* the millisecond count it stands for
toISOString(t) == t

\* entry.currency || currency
EntryCurrency(entry, cur) == IF entry.currency # NoCurrency THEN entry.currency ELSE cur

----------------------------------------------------------------------------
(* The summary (useMemo, lines 269-289) *)

\* entries.filter(type).reduce(sum + convertCurrency(...), 0) over the first n
\* entries
RECURSIVE TotalUpTo(_, _, _, _, _)
TotalUpTo(es, n, type, cur, rates) ==
    IF n = 0 THEN Zero
    ELSE IF es[n].type # type THEN TotalUpTo(es, n - 1, type, cur, rates)
    ELSE Add(TotalUpTo(es, n - 1, type, cur, rates),
             convertCurrency(es[n].amount, EntryCurrency(es[n], cur), cur, rates))

TotalOf(es, type, cur, rates) == TotalUpTo(es, Len(es), type, cur, rates)

\* the balance with the operands exchanged
Balance_Swapped(totalIncome, totalExpenses) == Sub(totalExpenses, totalIncome)

Balance(totalIncome, totalExpenses) == Sub(totalIncome, totalExpenses)

SummaryOf(es, cur, rates) ==
    LET totalIncome == TotalOf(es, "income", cur, rates)
        totalExpenses == TotalOf(es, "expense", cur, rates)
    IN  [totalIncome |-> totalIncome, totalExpenses |-> totalExpenses,
         balance |-> Balance(totalIncome, totalExpenses)]

\* a dependency list without exchangeRates
SummaryDepsChanged_NoRates == entries' # entries \/ currency' # currency

\* the dependency list [entries, currency, exchangeRates] (line 289)
SummaryDepsChanged ==
    entries' # entries \/ currency' # currency \/ exchangeRates' # exchangeRates

\* the render that follows a state update: useMemo recomputes the summary when
\* a dependency changed and keeps the memoised value otherwise
UseMemoSummary ==
    summary' = IF SummaryDepsChanged THEN SummaryOf(entries', currency', exchangeRates')
               ELSE summary

\* the effect of lines 81-87, run after a render in which currency or
\* editingId changed: outside edit mode the staged currency follows the
\* display currency.  fv, cur, ed: the state the handler has set.
CurrencyEffect(fv, cur, ed) ==
    IF (cur # currency \/ ed # editingId) /\ FalsyId(ed)
    THEN [fv EXCEPT !.entryCurrency = cur]
    ELSE fv

----------------------------------------------------------------------------
(* The rendered list (useMemo, lines 256-267) *)

\* the Date behind a date string, as milliseconds
getTime(date) == date

\* filteredEntries (lines 256-259)
filteredEntries(es, filter) ==
    IF filter = "all" THEN es ELSE SelectSeq(es, LAMBDA entry : entry.type = filter)

\* the comparator of line 264 is negative: a goes before b
GoesBefore(a, b) == getTime(b.date) - getTime(a.date) < 0

\* e put into the ordered list s: behind the entries that go before it and
\* behind those the comparator calls equal (Array.prototype.sort is stable)
InsertOrdered(s, e) ==
    LET ahead == Cardinality({k \in 1..Len(s) : ~GoesBefore(e, s[k])})
    IN  SubSeq(s, 1, ahead) \o <<e>> \o SubSeq(s, ahead + 1, Len(s))

\* the first n elements of es, ordered by the comparator
RECURSIVE SortUpTo(_, _)
SortUpTo(es, n) == IF n = 0 THEN <<>> ELSE InsertOrdered(SortUpTo(es, n - 1), es[n])

\* .sort(comparator): the elements of the array in the comparator's order
SortByDate(es) == SortUpTo(es, Len(es))

\* sort orders the array it is called on; called on filteredEntries itself,
\* which is the state's array under the filter 'all'
StateAfterSort_InPlace(es, filter) == IF filter = "all" THEN SortByDate(es) ELSE es

\* what the array held by the state is after sortedEntries was recomputed:
\* the sort of line 263 orders the copy made by [...filteredEntries]
StateAfterSort(es, filter) == es

\* the dependencies without the filter
ViewDepsChanged_NoFilter == entries' # entries

\* the dependencies [entries, currentFilter] of filteredEntries, on which
\* sortedEntries depends (lines 259, 266)
ViewDepsChanged == entries' # entries \/ currentFilter' # currentFilter

\* the render that follows a state update recomputes sortedEntries when a
\* dependency changed
UseMemoSorted ==
    sortedEntries' = IF ViewDepsChanged
                     THEN SortByDate(filteredEntries(entries', currentFilter'))
                     ELSE sortedEntries

----------------------------------------------------------------------------
(* Local storage (lines 18-46) and the effects that write to it (66-87) *)

\* what getItem returns for a key: null (missing), or a string; the string
\* under budgetEntries is kept as the value it is the JSON text of
Item(kind, value) == [kind |-> kind, value |-> value]

\* null in the place of a number in a JSON text
JsonNull == <<0, -1>>

\* JSON.stringify of an entry list: a number that is not finite is written
\* as null
JSONstringify(es) ==
    [i \in 1..Len(es) |->
        [es[i] EXCEPT !.amount = IF IsFinite(@) THEN @ ELSE JsonNull]]

\* JSON.parse of a text that JSON.stringify wrote
JSONparse(text) == text

\* loadFromStorage (lines 18-26): the value read, and whether an exception
\* left the function
loadFromStorage(ls, key, fallback) ==
    IF ls.throws THEN [threw |-> FALSE, value |-> fallback]
    ELSE IF ls.items[key].kind = "json"
    THEN [threw |-> FALSE, value |-> JSONparse(ls.items[key].value)]
    ELSE [threw |-> FALSE, value |-> fallback]

\* saveToStorage (lines 28-35)
saveToStorage(ls, key, value) ==
    [threw |-> FALSE,
     ls |-> IF ls.throws THEN ls
            ELSE [ls EXCEPT !.items[key] = Item("json", JSONstringify(value))]]

\* loadPrimitive (lines 37-41): getItem is called outside any try
loadPrimitive(ls, key, fallback) ==
    IF ls.throws THEN [threw |-> TRUE, value |-> fallback]
    ELSE [threw |-> FALSE,
          value |-> IF ls.items[key].kind = "missing" THEN fallback
                    ELSE ls.items[key].value]

\* savePrimitive (lines 43-46): setItem is called outside any try
savePrimitive(ls, key, value) ==
    IF ls.throws THEN [threw |-> TRUE, ls |-> ls]
    ELSE [threw |-> FALSE, ls |-> [ls EXCEPT !.items[key] = Item("string", value)]]

\* the effects of lines 66-87 that run after a render, each when one of its
\* dependencies changed; dark, es, cur: the state that was rendered
StorageAfterEffects(ls, darkChanged, dark, esChanged, es, curChanged, cur) ==
    LET saved1 == IF darkChanged
                  THEN savePrimitive(ls, "darkMode", IF dark THEN "enabled" ELSE "disabled")
                  ELSE [threw |-> FALSE, ls |-> ls]
        saved2 == IF esChanged THEN saveToStorage(saved1.ls, "budgetEntries", es)
                  ELSE [threw |-> FALSE, ls |-> saved1.ls]
        saved3 == IF curChanged THEN savePrimitive(saved2.ls, "budgetCurrency", cur)
                  ELSE [threw |-> FALSE, ls |-> saved2.ls]
    IN  [threw |-> saved1.threw \/ saved2.threw \/ saved3.threw, ls |-> saved3.ls]

\* the effects, with the entry list written only when its length changed
RunEffects_OnLengthChange ==
    LET after == StorageAfterEffects(localStorage,
                     isDarkMode' # isDarkMode, isDarkMode',
                     Len(entries') # Len(entries), entries',
                     currency' # currency \/ editingId' # editingId, currency')
    IN  /\ ~uncaughtError
        /\ localStorage' = after.ls
        /\ uncaughtError' = after.threw

\* the effects after the render that follows a state update; an exception
\* that leaves an effect makes React remove the component, after which no
\* handler runs
RunEffects ==
    LET after == StorageAfterEffects(localStorage,
                     isDarkMode' # isDarkMode, isDarkMode',
                     entries' # entries, entries',
                     currency' # currency \/ editingId' # editingId, currency')
    IN  /\ ~uncaughtError
        /\ localStorage' = after.ls
        /\ uncaughtError' = after.threw

----------------------------------------------------------------------------
(* The form (lines 122-206) *)

\* the staged value shown by the input with this id
FieldValue(fv, id) ==
    CASE id = "entryAmount" -> fv.amount
      [] id = "entryType" -> fv.type
      [] id = "entryLabel" -> fv.label
      [] id = "entryCategory" -> fv.category
      [] id = "entryCurrency" -> fv.entryCurrency

\* handleFormChange (lines 122-135): the input with this id takes this value;
\* a change event is dispatched when the value of the control changes
HandleFormChange(id, value) ==
    /\ FieldValue(formValues, id) # value
    /\ formValues' =
         CASE id = "entryAmount" -> [formValues EXCEPT !.amount = value]
           [] id = "entryType" -> [formValues EXCEPT !.type = value]
           [] id = "entryLabel" -> [formValues EXCEPT !.label = value]
           [] id = "entryCategory" -> [formValues EXCEPT !.category = value]
           [] id = "entryCurrency" -> [formValues EXCEPT !.entryCurrency = value]
           [] OTHER -> formValues
    /\ lastOp' = "formChange"
    /\ UNCHANGED <<entries, editingId, currentFilter, currency, isDarkMode,
                   exchangeRates, ratesLoading, now, pending, overtaken, conv>>
    /\ UseMemoSummary
    /\ UseMemoSorted
    /\ RunEffects

\* the validation without the test for a negative amount
SubmitRejected_NoSignTest(fv) ==
    LET amountNumber == parseFloat(fv.amount)
    IN  \/ IsNaN(amountNumber)
        \/ Trim(fv.label) = <<>> \/ fv.category = ""

\* the validation without the trim of the label
SubmitRejected_NoTrim(fv) ==
    LET amountNumber == parseFloat(fv.amount)
    IN  \/ IsNaN(amountNumber) \/ LtZero(amountNumber)
        \/ fv.label = <<>> \/ fv.category = ""

\* the early returns of handleSubmit (lines 149-151)
SubmitRejected(fv) ==
    LET amountNumber == parseFloat(fv.amount)
    IN  \/ IsNaN(amountNumber) \/ LtZero(amountNumber)
        \/ Trim(fv.label) = <<>> \/ fv.category = ""

\* the replacement that leaves the entry's currency as it was
EditedEntry_KeepCurrency(entry, fv) ==
    [entry EXCEPT !.type = fv.type, !.label = Trim(fv.label),
                  !.amount = parseFloat(fv.amount), !.category = fv.category]

\* the object that replaces the edited entry (lines 157-164)
EditedEntry(entry, fv) ==
    [entry EXCEPT !.type = fv.type, !.label = Trim(fv.label),
                  !.amount = parseFloat(fv.amount), !.category = fv.category,
                  !.currency = fv.entryCurrency]

\* the new entry with the label as typed
NewEntry_RawLabel(fv, t) ==
    [id |-> t, type |-> fv.type, label |-> fv.label, amount |-> parseFloat(fv.amount),
     category |-> fv.category, currency |-> fv.entryCurrency, date |-> toISOString(t)]

\* the entry that a create appends (lines 170-178), at clock value t
NewEntry(fv, t) ==
    [id |-> t, type |-> fv.type, label |-> Trim(fv.label), amount |-> parseFloat(fv.amount),
     category |-> fv.category, currency |-> fv.entryCurrency, date |-> toISOString(t)]

\* prev.map(...) of lines 154-167
MapEdited(prev, target, fv) ==
    [i \in 1..Len(prev) |->
        IF prev[i].id = target THEN EditedEntry(prev[i], fv) ELSE prev[i]]

\* handleSubmit (lines 147-183) and the effects of the render that follows;
\* t is the time the clock shows when the handler runs
HandleSubmit(t) ==
    /\ IF SubmitRejected(formValues)
       THEN /\ lastOp' = "submitRejected"
            /\ UNCHANGED <<entries, editingId, formValues, now>>
       ELSE IF editingId # NULL
       THEN /\ entries' = StateAfterSort(MapEdited(entries, editingId, formValues),
                                         currentFilter)
            /\ editingId' = NULL
            /\ formValues' = CurrencyEffect(DefaultForm(currency), currency, NULL)
            /\ lastOp' = "submitEdit"
            /\ UNCHANGED now
       ELSE /\ Len(entries) < MaxEntries
            /\ entries' = StateAfterSort(Append(entries, NewEntry(formValues, t)),
                                         currentFilter)
            /\ editingId' = editingId
            /\ formValues' = CurrencyEffect(DefaultForm(currency), currency, editingId)
            /\ lastOp' = "submitCreate"
            /\ now' = t
    /\ UNCHANGED <<currentFilter, currency, isDarkMode, exchangeRates, ratesLoading,
                   pending, overtaken, conv>>
    /\ UseMemoSummary
    /\ UseMemoSorted
    /\ RunEffects

\* handleEditEntry (lines 185-201)
HandleEditEntry(id) ==
    /\ IF \E i \in 1..Len(entries) : entries[i].id = id
       THEN LET first == CHOOSE i \in 1..Len(entries) :
                            /\ entries[i].id = id
                            /\ \A j \in 1..(i - 1) : entries[j].id # id
                entry == entries[first]
                staged == [type |-> entry.type, label |-> entry.label,
                           amount |-> NumberToString(entry.amount),
                           category |-> entry.category,
                           entryCurrency |-> EntryCurrency(entry, currency)]
            IN  /\ formValues' = CurrencyEffect(staged, currency, id)
                /\ editingId' = id
                /\ lastOp' = "editStart"
       ELSE /\ UNCHANGED <<formValues, editingId>>
            /\ lastOp' = "editMissing"
    /\ UNCHANGED <<entries, currentFilter, currency, isDarkMode, exchangeRates,
                   ratesLoading, now, pending, overtaken, conv>>
    /\ UseMemoSummary
    /\ UseMemoSorted
    /\ RunEffects

\* the text of the submit button (line 575)
SubmitButtonText == IF FalsyId(editingId) THEN "Add Entry" ELSE "Update Entry"

\* the Cancel button is rendered (line 577)
CancelButtonShown == editingId # NULL

\* a cancel that leaves the staged values in the form
HandleCancelEdit_NoReset ==
    /\ editingId # NULL
    /\ editingId' = NULL
    /\ formValues' = CurrencyEffect(formValues, currency, NULL)
    /\ lastOp' = "cancelEdit"
    /\ UNCHANGED <<entries, currentFilter, currency, isDarkMode, exchangeRates,
                   ratesLoading, now, pending, overtaken, conv>>
    /\ UseMemoSummary
    /\ UseMemoSorted
    /\ RunEffects

\* handleCancelEdit (lines 203-206); its button is rendered in edit mode only
\* (line 577)
HandleCancelEdit ==
    /\ editingId # NULL
    /\ editingId' = NULL
    /\ formValues' = CurrencyEffect(DefaultForm(currency), currency, NULL)
    /\ lastOp' = "cancelEdit"
    /\ UNCHANGED <<entries, currentFilter, currency, isDarkMode, exchangeRates,
                   ratesLoading, now, pending, overtaken, conv>>
    /\ UseMemoSummary
    /\ UseMemoSorted
    /\ RunEffects

\* the filter that keeps the entries with the given id
FilterOut_KeepMatching(prev, id) == SelectSeq(prev, LAMBDA entry : entry.id = id)

\* prev.filter((entry) => entry.id !== id) (line 211)
FilterOut(prev, id) == SelectSeq(prev, LAMBDA entry : entry.id # id)

\* handleDeleteEntry (lines 208-213); confirmed is the answer to window.confirm
HandleDeleteEntry(id, confirmed) ==
    /\ entries' = IF confirmed THEN StateAfterSort(FilterOut(entries, id), currentFilter)
                  ELSE entries
    /\ lastOp' = IF ~confirmed THEN "deleteDeclined"
                  ELSE IF \E i \in 1..Len(entries) : entries[i].id = id
                  THEN "deleteRemoved" ELSE "deleteNoMatch"
    /\ UNCHANGED <<editingId, formValues, currentFilter, currency, isDarkMode,
                   exchangeRates, ratesLoading, now, pending, overtaken, conv>>
    /\ UseMemoSummary
    /\ UseMemoSorted
    /\ RunEffects

----------------------------------------------------------------------------
(* Display controls (lines 298-308, 613) *)

\* handleCurrencyChange, and the effect of lines 81-87
HandleCurrencyChange(value) ==
    /\ value # currency
    /\ currency' = value
    /\ formValues' = CurrencyEffect(formValues, value, editingId)
    /\ lastOp' = "currencyChange"
    /\ UNCHANGED <<entries, editingId, currentFilter, isDarkMode, exchangeRates,
                   ratesLoading, now, pending, overtaken, conv>>
    /\ UseMemoSummary
    /\ UseMemoSorted
    /\ RunEffects

SetCurrentFilter(filter) ==
    /\ currentFilter' = filter
    /\ entries' = StateAfterSort(entries, filter)
    /\ lastOp' = "filter"
    /\ UNCHANGED <<editingId, formValues, currency, isDarkMode, exchangeRates,
                   ratesLoading, now, pending, overtaken, conv>>
    /\ UseMemoSummary
    /\ UseMemoSorted
    /\ RunEffects

ToggleDarkMode ==
    /\ isDarkMode' = ~isDarkMode
    /\ lastOp' = "darkMode"
    /\ UNCHANGED <<entries, editingId, formValues, currency, currentFilter, exchangeRates,
                   ratesLoading, now, pending, overtaken, conv>>
    /\ UseMemoSummary
    /\ UseMemoSorted
    /\ RunEffects

----------------------------------------------------------------------------
(* The rate fetch (lines 90-120) *)

\* the response's rates as received
WithUSD_AsReceived(rates) == rates

\* rates.USD = 1 (line 99)
WithUSD(rates) ==
    [c \in (DOMAIN rates) \cup {"USD"} |-> IF c = "USD" THEN One ELSE rates[c]]

\* a fallback that holds the base currency alone
FallbackRates_BaseOnly == [c \in {"USD"} |-> One]

\* the table of the catch branch (lines 104-109)
FallbackRates == [c \in CURRENCY_LIST |-> One]

\* the calls that await their response, in the order they were issued; the
\* k-th of them completes.  The calls before it have then been overtaken; the
\* first overtaken of them are those that had been overtaken before.
OvertakenAfter(n, k) == IF k <= n THEN n - 1 ELSE k - 1

\* a fetch that empties the table while the request is out
IntervalFetch_ClearsTable ==
    /\ pending < MaxPending
    /\ pending' = pending + 1
    /\ overtaken' = overtaken
    /\ ratesLoading' = TRUE
    /\ exchangeRates' = EmptyTable
    /\ lastOp' = "fetchIssued"
    /\ UNCHANGED <<entries, editingId, formValues, currency, currentFilter, isDarkMode,
                   now, conv>>
    /\ UseMemoSummary
    /\ UseMemoSorted
    /\ RunEffects

\* the interval timer calls fetchExchangeRates (line 118): the request leaves
IntervalFetch ==
    /\ pending < MaxPending
    /\ pending' = pending + 1
    /\ overtaken' = overtaken
    /\ ratesLoading' = TRUE
    /\ lastOp' = "fetchIssued"
    /\ UNCHANGED <<entries, editingId, formValues, currency, currentFilter, isDarkMode,
                   exchangeRates, now, conv>>
    /\ UseMemoSummary
    /\ UseMemoSorted
    /\ RunEffects

\* a response arrives and parses; rates is data.rates || {} (lines 96-100, 112)
FetchSucceeds(rates) ==
    /\ pending > 0
    /\ pending' = pending - 1
    /\ \E k \in 1..pending : overtaken' = OvertakenAfter(overtaken, k)
    /\ exchangeRates' = WithUSD(rates)
    /\ ratesLoading' = FALSE
    /\ lastOp' = "fetchOk"
    /\ UNCHANGED <<entries, editingId, formValues, currency, currentFilter, isDarkMode,
                   now, conv>>
    /\ UseMemoSummary
    /\ UseMemoSorted
    /\ RunEffects

\* a catch branch that only logs the error
FetchFails_KeepsTable ==
    /\ pending > 0
    /\ pending' = pending - 1
    /\ \E k \in 1..pending : overtaken' = OvertakenAfter(overtaken, k)
    /\ ratesLoading' = FALSE
    /\ lastOp' = "fetchFailed"
    /\ UNCHANGED <<entries, editingId, formValues, currency, currentFilter, isDarkMode,
                   exchangeRates, now, conv>>
    /\ UseMemoSummary
    /\ UseMemoSorted
    /\ RunEffects

\* the request or the parse of its response throws (lines 101-112)
FetchFails ==
    /\ pending > 0
    /\ pending' = pending - 1
    /\ \E k \in 1..pending : overtaken' = OvertakenAfter(overtaken, k)
    /\ exchangeRates' = FallbackRates
    /\ ratesLoading' = FALSE
    /\ lastOp' = "fetchFailed"
    /\ UNCHANGED <<entries, editingId, formValues, currency, currentFilter, isDarkMode,
                   now, conv>>
    /\ UseMemoSummary
    /\ UseMemoSorted
    /\ RunEffects

----------------------------------------------------------------------------
(* Inputs *)

Q(n, d) == Norm(n, d)

\* values of the type select (lines 476-477)
TypeInputs == {"income", "expense"}

\* labels typed into the text input (line 489): blank, and padded
LabelInputs == {<<" ">>, <<" ", "a", " ">>}

\* values of the number input (line 507): the value of such an input is a
\* valid floating-point number or the empty string
AmountInputs == {<<"2", ".", "5">>, <<"-", "3">>}

\* values of the category select (lines 533-543)
CategoryInputs == {"", "food"}

\* codes chosen in the currency selects (lines 353, 558)
CurrencyInputs == {"USD", "EUR"}

\* filters (line 597)
FilterInputs == {"all", "income", "expense"}

\* the rates of the responses: one currency, and a table with its own USD
\* entry and a zero rate
ResponseRates ==
    { ("EUR" :> Q(9, 10)),
      ("USD" :> Q(2, 1) @@ "EUR" :> Zero @@ "GBP" :> Q(1, 2)) }

\* an entry written by an earlier version, without a currency
LegacyEntry ==
    [id |-> 1, type |-> "expense", label |-> <<"r">>, amount |-> Q(10, 1),
     category |-> "bills", currency |-> NoCurrency, date |-> toISOString(1)]

\* a stored expense without a currency
StoredExpense ==
    [id |-> 1, type |-> "expense", label |-> <<"a">>, amount |-> Q(10, 1),
     category |-> "food", currency |-> NoCurrency, date |-> toISOString(1)]

\* the entry lists found in storage at start
StoredEntryLists == {<<>>, <<LegacyEntry>>, <<StoredExpense>>}

\* the ids of the rendered entries, which the Edit and Delete buttons pass
\* (lines 689, 696)
RenderedIds == {entries[i].id : i \in 1..Len(entries)}

\* an id that no entry has
AbsentId == CHOOSE id \in 0..(MaxClock + 1) : id \notin RenderedIds

ConvIdle ==
    [pc |-> "idle", amount |-> Zero, from |-> "USD", to |-> "USD", result |-> Zero,
     back |-> Zero, divisors |-> {}]

----------------------------------------------------------------------------
(* The application *)

\* the state after the first render and its effects, started with this local
\* storage: the useState initialisers read it (lines 49-63), the effects write
\* to it and the first fetch is outstanding (lines 66-87, 116).  An exception
\* in an initialiser ends the render: nothing is mounted.
StartFrom(ls) ==
    LET readEntries == loadFromStorage(ls, "budgetEntries", <<>>)
        readCurrency == loadPrimitive(ls, "budgetCurrency", "USD")
        readDark == loadPrimitive(ls, "darkMode", "disabled")
        threwInRender == readEntries.threw \/ readCurrency.threw \/ readDark.threw
        stored == readEntries.value
        cur == readCurrency.value
        dark == readDark.value = "enabled"
        after == StorageAfterEffects(ls, TRUE, dark, TRUE, stored, TRUE, cur)
    IN  [entries |-> StateAfterSort(stored, "all"),
         editingId |-> NULL,
         currentFilter |-> "all",
         currency |-> cur,
         isDarkMode |-> dark,
         exchangeRates |-> EmptyTable,
         ratesLoading |-> TRUE,
         formValues |-> DefaultForm(cur),
         summary |-> SummaryOf(stored, cur, EmptyTable),
         sortedEntries |-> SortByDate(filteredEntries(stored, "all")),
         pending |-> IF threwInRender \/ after.threw THEN 0 ELSE 1,
         lastOp |-> IF ls.throws \/ ls.items["budgetEntries"].kind = "unparsable"
                    THEN "initReadFailed" ELSE "init",
         localStorage |-> IF threwInRender THEN ls ELSE after.ls,
         uncaughtError |-> (threwInRender \/ after.threw)]

\* the first start of the page, with the clock at 2
InitFrom(ls) ==
    LET start == StartFrom(ls)
    IN  /\ entries = start.entries
        /\ editingId = start.editingId
        /\ currentFilter = start.currentFilter
        /\ currency = start.currency
        /\ isDarkMode = start.isDarkMode
        /\ exchangeRates = start.exchangeRates
        /\ ratesLoading = start.ratesLoading
        /\ formValues = start.formValues
        /\ summary = start.summary
        /\ sortedEntries = start.sortedEntries
        /\ now = 2
        /\ pending = start.pending
        /\ overtaken = 0
        /\ lastOp = start.lastOp
        /\ conv = ConvIdle
        /\ localStorage = start.localStorage
        /\ uncaughtError = start.uncaughtError

\* the page is loaded again (a reload, a new tab after the old one is
\* closed): every state is built anew from what local storage holds, the
\* fetches of the page before are dropped and a first fetch is issued; the
\* clock goes on
Reload ==
    LET start == StartFrom(localStorage)
    IN  /\ entries' = start.entries
        /\ editingId' = start.editingId
        /\ currentFilter' = start.currentFilter
        /\ currency' = start.currency
        /\ isDarkMode' = start.isDarkMode
        /\ exchangeRates' = start.exchangeRates
        /\ ratesLoading' = start.ratesLoading
        /\ formValues' = start.formValues
        /\ summary' = start.summary
        /\ sortedEntries' = start.sortedEntries
        /\ now' = now
        /\ pending' = start.pending
        /\ overtaken' = 0
        /\ lastOp' = "reload"
        /\ conv' = ConvIdle
        /\ localStorage' = start.localStorage
        /\ uncaughtError' = start.uncaughtError

\* a local storage that works and holds this entry list and display currency,
\* as an earlier run left them
StorageHolding(stored, cur) ==
    [throws |-> FALSE,
     items |-> [budgetEntries |-> Item("json", JSONstringify(stored)),
                budgetCurrency |-> Item("string", cur),
                darkMode |-> Item("string", "disabled")]]

\* the start with these values in storage
InitWith(stored, cur) == InitFrom(StorageHolding(stored, cur))

Init == \E stored \in StoredEntryLists, cur \in CurrencyInputs : InitWith(stored, cur)

\* the change events of the five form controls, with values from these sets
FormChanges(types, labels, amounts, categories, currencies) ==
    \/ \E v \in types : HandleFormChange("entryType", v)
    \/ \E v \in labels : HandleFormChange("entryLabel", v)
    \/ \E v \in amounts : HandleFormChange("entryAmount", v)
    \/ \E v \in categories : HandleFormChange("entryCategory", v)
    \/ \E v \in currencies : HandleFormChange("entryCurrency", v)

\* every handler, timer and response, with the inputs above
Next ==
    \/ FormChanges(TypeInputs, LabelInputs, AmountInputs, CategoryInputs, CurrencyInputs)
    \/ \E t \in now..MaxClock : HandleSubmit(t)
    \/ \E id \in RenderedIds : HandleEditEntry(id)
    \/ HandleCancelEdit
    \/ \E id \in RenderedIds \cup {AbsentId}, confirmed \in BOOLEAN :
          HandleDeleteEntry(id, confirmed)
    \/ \E v \in CurrencyInputs : HandleCurrencyChange(v)
    \/ \E f \in FilterInputs : SetCurrentFilter(f)
    \/ ToggleDarkMode
    \/ IntervalFetch
    \/ \E rates \in ResponseRates : FetchSucceeds(rates)
    \/ FetchFails
    \/ Reload

Spec == Init /\ [][Next]_vars

----------------------------------------------------------------------------
(* The form and the entry list on a first start (nothing in storage), up to *)
(* the first response to a rate fetch: lines 122-213                        *)

InitFresh == InitWith(<<>>, "USD")

NextForm ==
    \/ FormChanges(TypeInputs, LabelInputs, AmountInputs, CategoryInputs, CurrencyInputs)
    \/ \E t \in now..MaxClock : HandleSubmit(t)
    \/ \E id \in RenderedIds : HandleEditEntry(id)
    \/ HandleCancelEdit
    \/ \E id \in RenderedIds \cup {AbsentId}, confirmed \in BOOLEAN :
          HandleDeleteEntry(id, confirmed)

SpecForm == InitFresh /\ [][NextForm]_vars

----------------------------------------------------------------------------
(* Editing a stored entry: the same handlers, started with the legacy entry *)
(* in storage and fed one valid value per form control, each different from *)
(* the stored entry's                                                       *)

InitStored == InitWith(<<LegacyEntry>>, "USD")

NextEdit ==
    \/ FormChanges({"income"}, {<<" ", "a", " ">>}, {<<"2", ".", "5">>}, {"food"}, {"EUR"})
    \/ \E t \in now..MaxClock : HandleSubmit(t)
    \/ \E id \in RenderedIds : HandleEditEntry(id)
    \/ HandleCancelEdit
    \/ \E id \in RenderedIds \cup {AbsentId}, confirmed \in BOOLEAN :
          HandleDeleteEntry(id, confirmed)

SpecEdit == InitStored /\ [][NextEdit]_vars

----------------------------------------------------------------------------
(* Edit mode: the stored entry is edited with values that differ from its   *)
(* own, while the display currency changes                                  *)

NextMode ==
    \/ FormChanges({"income"}, {<<" ", "a", " ">>}, {<<"2", ".", "5">>}, {"food"}, {"EUR"})
    \/ \E t \in now..MaxClock : HandleSubmit(t)
    \/ \E id \in RenderedIds : HandleEditEntry(id)
    \/ HandleCancelEdit
    \/ \E id \in RenderedIds : HandleDeleteEntry(id, TRUE)
    \/ \E v \in CurrencyInputs : HandleCurrencyChange(v)

SpecMode == InitStored /\ [][NextMode]_vars

----------------------------------------------------------------------------
(* The summary: every handler that sets entries, currency or exchangeRates, *)
(* the form fed one valid value per control; the timer fires when the fetch *)
(* before has completed                                                     *)

InitSummary == \E stored \in {<<>>, <<StoredExpense>>} : InitWith(stored, "USD")

NextSummary ==
    \/ FormChanges({"income"}, {<<"a">>}, {<<"2", ".", "5">>}, {"food"}, {"EUR"})
    \/ \E t \in now..MaxClock : HandleSubmit(t)
    \/ \E id \in RenderedIds : HandleEditEntry(id)
    \/ HandleCancelEdit
    \/ \E id \in RenderedIds : HandleDeleteEntry(id, TRUE)
    \/ \E v \in CurrencyInputs : HandleCurrencyChange(v)
    \/ pending = 0 /\ IntervalFetch
    \/ \E rates \in ResponseRates : FetchSucceeds(rates)
    \/ FetchFails

SpecSummary == InitSummary /\ [][NextSummary]_vars

----------------------------------------------------------------------------
(* Every handler, timer and response on a first start: the form is fed one  *)
(* valid value for each of the three fields that start empty, the fetch one *)
(* response table; the timer fires when the fetch before has completed      *)

NextFrame ==
    \/ HandleFormChange("entryLabel", <<"a">>)
    \/ HandleFormChange("entryAmount", <<"2", ".", "5">>)
    \/ HandleFormChange("entryCategory", "food")
    \/ \E t \in now..MaxClock : HandleSubmit(t)
    \/ \E id \in RenderedIds : HandleEditEntry(id)
    \/ HandleCancelEdit
    \/ \E id \in RenderedIds : HandleDeleteEntry(id, TRUE)
    \/ \E v \in CurrencyInputs : HandleCurrencyChange(v)
    \/ \E f \in {"all", "income"} : SetCurrentFilter(f)
    \/ ToggleDarkMode
    \/ pending = 0 /\ IntervalFetch
    \/ FetchSucceeds("EUR" :> Q(9, 10))
    \/ FetchFails

SpecFrame == InitFresh /\ [][NextFrame]_vars

----------------------------------------------------------------------------
(* The rendered list on a first start: the form handlers with one valid     *)
(* value per control, and the filter buttons                                *)

NextView ==
    \/ FormChanges({"expense"}, {<<"a">>}, {<<"2", ".", "5">>}, {"food"}, {"EUR"})
    \/ \E t \in now..MaxClock : HandleSubmit(t)
    \/ \E id \in RenderedIds : HandleEditEntry(id)
    \/ HandleCancelEdit
    \/ \E id \in RenderedIds : HandleDeleteEntry(id, TRUE)
    \/ \E f \in FilterInputs : SetCurrentFilter(f)

SpecView == InitFresh /\ [][NextView]_vars

----------------------------------------------------------------------------
(* convertCurrency on its own: an amount, two currency codes and a rate     *)
(* table are chosen, the amount is converted, and the result converted back *)

ConvCurrencies == {"USD", "EUR", "GBP"}

ConvAmounts == {Zero, Q(5, 1), Q(5, 2)}

ConvRates == {Zero, Q(1, 2), Q(3, 1)}

\* every table that holds rates for some of the currencies
ConvTables == UNION {[held -> ConvRates] : held \in SUBSET ConvCurrencies}

InitConv ==
    /\ entries = <<>>
    /\ editingId = NULL
    /\ currentFilter = "all"
    /\ currency = "USD"
    /\ isDarkMode = FALSE
    /\ exchangeRates \in ConvTables
    /\ ratesLoading = FALSE
    /\ formValues = DefaultForm("USD")
    /\ summary = SummaryOf(<<>>, "USD", exchangeRates)
    /\ sortedEntries = <<>>
    /\ now = 2
    /\ pending = 0
    /\ overtaken = 0
    /\ lastOp = "init"
    /\ conv \in [pc : {"start"}, amount : ConvAmounts, from : ConvCurrencies,
                 to : ConvCurrencies, result : {Zero}, back : {Zero}, divisors : {{}}]
    /\ localStorage = StorageHolding(<<>>, "USD")
    /\ uncaughtError = FALSE

\* convertCurrency(amount, from, to) with the table in effect
Convert ==
    /\ conv.pc = "start"
    /\ conv' = [conv EXCEPT !.pc = "converted",
                            !.result = convertCurrency(conv.amount, conv.from, conv.to,
                                                       exchangeRates),
                            !.divisors = DivisorsOf(conv.from, conv.to, exchangeRates)]
    /\ UNCHANGED <<entries, editingId, currentFilter, currency, isDarkMode, exchangeRates,
                   ratesLoading, formValues, summary, sortedEntries, now, pending, overtaken, lastOp,
                   localStorage, uncaughtError>>

\* the result converted back: convertCurrency(result, to, from)
ConvertBack ==
    /\ conv.pc = "converted"
    /\ conv' = [conv EXCEPT !.pc = "back",
                            !.back = convertCurrency(conv.result, conv.to, conv.from,
                                                     exchangeRates),
                            !.divisors = conv.divisors
                                         \cup DivisorsOf(conv.to, conv.from, exchangeRates)]
    /\ UNCHANGED <<entries, editingId, currentFilter, currency, isDarkMode, exchangeRates,
                   ratesLoading, formValues, summary, sortedEntries, now, pending, overtaken, lastOp,
                   localStorage, uncaughtError>>

NextConv == Convert \/ ConvertBack

SpecConv == InitConv /\ [][NextConv]_vars

----------------------------------------------------------------------------
(* The rate fetch from the first render on: the timer, the responses, the   *)
(* failures, and uses of convertCurrency with the table in effect           *)

\* data.rates || {} of the responses: those above, and a response without
\* rates
FetchResponses == ResponseRates \cup {EmptyTable}

\* convertCurrency(amount, from, to) called during a render (lines 275, 679)
ConvertAmount(amount, from, to) ==
    /\ conv' = [pc |-> "converted", amount |-> amount, from |-> from, to |-> to,
                result |-> convertCurrency(amount, from, to, exchangeRates),
                back |-> Zero, divisors |-> DivisorsOf(from, to, exchangeRates)]
    /\ lastOp' = "convert"
    /\ UNCHANGED <<entries, editingId, currentFilter, currency, isDarkMode, exchangeRates,
                   ratesLoading, formValues, summary, sortedEntries, now, pending,
                   overtaken, localStorage, uncaughtError>>

\* a fetch completes: its response arrives, or it fails
FetchCompletes == (\E rates \in FetchResponses : FetchSucceeds(rates)) \/ FetchFails

NextFetch ==
    \/ IntervalFetch
    \/ \E rates \in FetchResponses : FetchSucceeds(rates)
    \/ FetchFails
    \/ \E amount \in ConvAmounts, from \in CURRENCY_LIST, to \in CURRENCY_LIST :
          ConvertAmount(amount, from, to)

SpecFetch == InitFresh /\ [][NextFetch]_vars

\* the same with conversions between three of the currencies
NextFetchLive ==
    \/ IntervalFetch
    \/ \E rates \in FetchResponses : FetchSucceeds(rates)
    \/ FetchFails
    \/ \E amount \in ConvAmounts, from \in ConvCurrencies, to \in ConvCurrencies :
          ConvertAmount(amount, from, to)

\* every fetch that was issued completes at some time: the step that
\* completes one is taken if it stays possible
SpecFetchLive == InitFresh /\ [][NextFetchLive]_vars /\ WF_vars(FetchCompletes)

----------------------------------------------------------------------------
(* Local storage: the start with what an earlier run or another program     *)
(* left under the three keys, and handlers that make each of the effects    *)
(* write (a delete, the start and the cancel of an edit, a change of the    *)
(* display currency, the dark mode), while access to the storage starts and *)
(* stops throwing                                                           *)

\* the storages found at start
StoredStorages ==
    {[throws |-> t,
      items |-> [budgetEntries |-> e, budgetCurrency |-> c, darkMode |-> d]] :
        t \in BOOLEAN,
        e \in {Item("missing", <<>>), Item("unparsable", <<>>),
               Item("json", JSONstringify(<<StoredExpense>>))},
        c \in {Item("missing", ""), Item("string", "EUR")},
        d \in {Item("missing", ""), Item("string", "enabled")}}

InitStorage == \E ls \in StoredStorages : InitFrom(ls)

\* getItem and setItem start or stop throwing (access to the storage is
\* denied, its quota is used up)
StorageThrows(throws) ==
    /\ throws # localStorage.throws
    /\ localStorage' = [localStorage EXCEPT !.throws = throws]
    /\ lastOp' = "storage"
    /\ UNCHANGED <<entries, editingId, currentFilter, currency, isDarkMode, exchangeRates,
                   ratesLoading, formValues, summary, sortedEntries, now, pending, overtaken, conv,
                   uncaughtError>>

NextStorage ==
    \/ \E id \in RenderedIds : HandleEditEntry(id)
    \/ HandleCancelEdit
    \/ \E id \in RenderedIds : HandleDeleteEntry(id, TRUE)
    \/ \E v \in CurrencyInputs : HandleCurrencyChange(v)
    \/ ToggleDarkMode
    \/ \E throws \in BOOLEAN : StorageThrows(throws)

SpecStorage == InitStorage /\ [][NextStorage]_vars

----------------------------------------------------------------------------
(* Persistence with a storage that works: the start with what an earlier    *)
(* run or another program left under the three keys, the handlers that      *)
(* change what is persisted, and reloads of the page                        *)

\* the storages found at start, none of which throws
WorkingStorages == {ls \in StoredStorages : ~ls.throws}

InitPersist == \E ls \in WorkingStorages : InitFrom(ls)

NextPersist ==
    \/ HandleFormChange("entryLabel", <<"a">>)
    \/ HandleFormChange("entryAmount", <<"2", ".", "5">>)
    \/ HandleFormChange("entryCategory", "food")
    \/ \E t \in now..MaxClock : HandleSubmit(t)
    \/ \E id \in RenderedIds : HandleEditEntry(id)
    \/ HandleCancelEdit
    \/ \E id \in RenderedIds : HandleDeleteEntry(id, TRUE)
    \/ \E v \in CurrencyInputs : HandleCurrencyChange(v)
    \/ ToggleDarkMode
    \/ Reload

SpecPersist == InitPersist /\ [][NextPersist]_vars

----------------------------------------------------------------------------
(* Properties of the summary, for SpecSummary *)

\* entry i converted to the display currency with the table in effect
ConvertedAmount(i) ==
    convertCurrency(entries[i].amount,
                    IF entries[i].currency = NoCurrency THEN currency
                    ELSE entries[i].currency,
                    currency, exchangeRates)

\* the sum of the converted amounts of the entries with indices in I
RECURSIVE SumConverted(_)
SumConverted(I) ==
    IF I = {} THEN Zero
    ELSE LET i == CHOOSE j \in I : TRUE
         IN  Add(ConvertedAmount(i), SumConverted(I \ {i}))

IndicesOfType(type) == {i \in 1..Len(entries) : entries[i].type = type}

\* C1: in every reachable state totalIncome is the sum over the income
\* entries of the amount converted from the entry's currency (the display
\* currency when it has none) to the display currency with the current rate
\* table, and totalExpenses is the same sum over the expense entries: the
\* memoised summary is never stale.
C1_SummaryIsCurrent ==
    /\ summary.totalIncome = SumConverted(IndicesOfType("income"))
    /\ summary.totalExpenses = SumConverted(IndicesOfType("expense"))

\* a response has just installed a rate for EUR, and the income total shows
\* the 2.5 EUR entry as 25/9 USD next to the stored expense of 10
C1_Witness ==
    /\ lastOp = "fetchOk"
    /\ currency = "USD"
    /\ exchangeRates["EUR"] = Q(9, 10)
    /\ Len(entries) = 2
    /\ entries[1].currency = NoCurrency
    /\ entries[2].type = "income" /\ entries[2].currency = "EUR"
    /\ summary.totalIncome = Q(25, 9)
    /\ summary.totalExpenses = Q(10, 1)

\* C2: for every entry list, display currency and rate table the balance of
\* the summary is totalIncome minus totalExpenses.
C2_BalanceIsDifference ==
    summary.balance = Sub(summary.totalIncome, summary.totalExpenses)

\* an income has just been added to a larger expense: the balance is negative
C2_Witness ==
    /\ lastOp = "submitCreate"
    /\ summary.totalIncome = Q(5, 2)
    /\ summary.totalExpenses = Q(10, 1)
    /\ summary.balance = Q(-15, 2)

----------------------------------------------------------------------------
(* Properties of convertCurrency, for SpecConv *)

\* (amount / rate[source]) * rate[target], the division skipped for a USD
\* source and the multiplication for a USD target
PivotFormula ==
    LET inBase == IF conv.from = "USD" THEN conv.amount
                  ELSE Div(conv.amount, exchangeRates[conv.from])
    IN  IF conv.to = "USD" THEN inBase ELSE Mul(inBase, exchangeRates[conv.to])

\* the table holds a rate for the currency, or the currency is USD
HeldOrBase(c) == c = "USD" \/ c \in DOMAIN exchangeRates

\* the table holds a rate other than 0 for the currency, or the currency is USD
NonZeroOrBase(c) == c = "USD" \/ (c \in DOMAIN exchangeRates /\ exchangeRates[c] # Zero)

\* C3 as stated: when source and target differ and the table holds a rate for
\* each of them that is not USD, the result is the pivot formula.
C3_Original ==
    (conv.pc = "converted" /\ conv.from # conv.to
        /\ HeldOrBase(conv.from) /\ HeldOrBase(conv.to))
    => conv.result = PivotFormula

\* C3, amended: when source and target differ and the table holds a rate
\* other than 0 for each of them that is not USD, the result is
\* (amount / rate[source]) * rate[target], the division skipped for a USD
\* source and the multiplication for a USD target.
C3_PivotThroughBase ==
    (conv.pc = "converted" /\ conv.from # conv.to
        /\ NonZeroOrBase(conv.from) /\ NonZeroOrBase(conv.to))
    => conv.result = PivotFormula

\* 5 EUR at rate 1/2 to GBP at rate 3 is 30
C3_Witness ==
    /\ conv.pc = "converted"
    /\ conv.from = "EUR" /\ conv.to = "GBP" /\ conv.amount = Q(5, 1)
    /\ HasRate(exchangeRates, "EUR") /\ exchangeRates["EUR"] = Q(1, 2)
    /\ HasRate(exchangeRates, "GBP") /\ exchangeRates["GBP"] = Q(3, 1)
    /\ conv.result = Q(30, 1)

\* C4: convertCurrency returns the original amount, a number, whenever the
\* table is empty or the source or the target is absent from the table and
\* is not USD.
C4_MissingRateIsNoOp ==
    (conv.pc = "converted"
        /\ \/ DOMAIN exchangeRates = {}
           \/ ~HeldOrBase(conv.from)
           \/ ~HeldOrBase(conv.to))
    => (conv.result = conv.amount /\ ~IsNaN(conv.result))

\* the source has a rate, the target GBP has none: 5 EUR stays 5
C4_Witness ==
    /\ conv.pc = "converted"
    /\ conv.from = "EUR" /\ conv.to = "GBP" /\ conv.amount = Q(5, 1)
    /\ DOMAIN exchangeRates = {"EUR"} /\ exchangeRates["EUR"] = Q(1, 2)
    /\ conv.result = Q(5, 1)

\* C5: for every amount and every currency c, convertCurrency(amount, c, c)
\* is the amount, whatever the table holds.
C5_SameCurrencyIsIdentity ==
    (conv.pc = "converted" /\ conv.from = conv.to) => conv.result = conv.amount

\* EUR to EUR with a rate of 1/2 for EUR in the table
C5_Witness ==
    /\ conv.pc = "converted"
    /\ conv.from = "EUR" /\ conv.to = "EUR" /\ conv.amount = Q(5, 1)
    /\ "EUR" \in DOMAIN exchangeRates /\ exchangeRates["EUR"] = Q(1, 2)
    /\ conv.result = Q(5, 1)

\* C6: for every amount a and every currency c whose rate is in the table,
\* converting a from c to USD and the result back from USD to c gives a
\* (exactly, the arithmetic being rational).
C6_RoundTripThroughBase ==
    (conv.pc = "back" /\ conv.to = "USD" /\ conv.from \in DOMAIN exchangeRates)
    => conv.back = conv.amount

\* 5 EUR at rate 3 is 5/3 USD, and 5/3 USD is 5 EUR again
C6_Witness ==
    /\ conv.pc = "back"
    /\ conv.from = "EUR" /\ conv.to = "USD" /\ conv.amount = Q(5, 1)
    /\ "EUR" \in DOMAIN exchangeRates /\ exchangeRates["EUR"] = Q(3, 1)
    /\ conv.result = Q(5, 3)
    /\ conv.back = Q(5, 1)

----------------------------------------------------------------------------
(* Properties of the form handlers, for SpecEdit and SpecForm *)

\* the step is a run of handleSubmit
SubmitStep == \E t \in now..MaxClock : HandleSubmit(t)

\* the staged amount is not a number or is negative, the staged label is
\* empty or all blanks, or the staged category is empty
StagedInvalid ==
    \/ IsNaN(parseFloat(formValues.amount))
    \/ LtZero(parseFloat(formValues.amount))
    \/ \A k \in 1..Len(formValues.label) : formValues.label[k] = " "
    \/ formValues.category = ""

\* the staged values, as an entry with this id and date
StagedAs(id, date) ==
    [id |-> id, type |-> formValues.type, label |-> Trim(formValues.label),
     amount |-> parseFloat(formValues.amount), category |-> formValues.category,
     currency |-> formValues.entryCurrency, date |-> date]

\* C7: a valid submit in edit mode with edit target t leaves the list with
\* the same length and order, the entries whose id is t holding the staged
\* type, trimmed label, parsed amount, category and currency under their own
\* id and date, and every other entry unchanged.
C7_EditReplacesInPlace ==
    [][(SubmitStep /\ editingId # NULL /\ ~StagedInvalid)
        => /\ Len(entries') = Len(entries)
           /\ \A i \in 1..Len(entries) :
                 entries'[i] = IF entries[i].id = editingId
                               THEN StagedAs(entries[i].id, entries[i].date)
                               ELSE entries[i]]_vars

\* the stored entry has just been edited in every field, ahead of a second
\* entry that was added after it
C7_Witness ==
    /\ lastOp = "submitEdit"
    /\ Len(entries) = 2
    /\ entries[1] = [id |-> 1, type |-> "income", label |-> <<"a">>,
                     amount |-> Q(5, 2), category |-> "food", currency |-> "EUR",
                     date |-> toISOString(1)]
    /\ entries[2].id # 1

\* entries without the ones whose id is id, in their order
WithoutId(es, id) ==
    LET keep == {i \in 1..Len(es) : es[i].id # id}
        place(i) == Cardinality({j \in keep : j <= i})
    IN  [k \in 1..Cardinality(keep) |-> es[CHOOSE i \in keep : place(i) = k]]

\* C8: handleDeleteEntry(id) changes the list only when the user confirms and
\* an entry has that id; it then removes exactly the entries with that id and
\* keeps the others in their order.  Declined, or no entry with the id: the
\* list is unchanged.
C8_DeleteRemovesById ==
    [][\A id \in RenderedIds \cup {AbsentId}, confirmed \in BOOLEAN :
          HandleDeleteEntry(id, confirmed)
          => IF confirmed /\ id \in RenderedIds
             THEN entries' = WithoutId(entries, id) /\ entries' # entries
             ELSE entries' = entries]_vars

\* an entry has just been removed and another one is left
C8_Witness ==
    /\ lastOp = "deleteRemoved"
    /\ Len(entries) = 1

\* C9: a submit whose staged amount is not a number or negative, whose label
\* is blank after trimming or whose category is empty changes nothing, in
\* create and in edit mode: the entry list, the edit target and the staged
\* values stay as they are.
C9_InvalidSubmitIsNoOp ==
    [][(SubmitStep /\ StagedInvalid)
        => UNCHANGED <<entries, editingId, formValues>>]_vars

\* a negative amount has just been rejected in edit mode
C9_Witness ==
    /\ lastOp = "submitRejected"
    /\ editingId # NULL
    /\ formValues.amount = <<"-", "3">>
    /\ Trim(formValues.label) # <<>> /\ formValues.category # ""

\* C10: a valid submit in create mode appends one entry at the end, with the
\* staged type, trimmed label, parsed amount, category and currency, the
\* clock's reading as id and as date; the entries that were there keep their
\* values and order.
C10_CreateAppends ==
    [][(SubmitStep /\ editingId = NULL /\ ~StagedInvalid)
        => /\ now' >= now
           /\ entries' = Append(entries, StagedAs(now', toISOString(now')))]_vars

\* a second entry has just been appended, its label trimmed
C10_Witness ==
    /\ lastOp = "submitCreate"
    /\ Len(entries) = 2
    /\ entries[2].id = now /\ entries[2].date = toISOString(now)
    /\ entries[2].label = <<"a">> /\ entries[2].amount = Q(5, 2)
    /\ entries[2].type = "expense" /\ entries[2].currency = "EUR"

----------------------------------------------------------------------------
(* Properties of the entry list, for SpecForm *)

\* C11: in every state reached from an empty entry list by creates, edits and
\* deletes, the ids of the entries are pairwise distinct.
C11_IdsAreDistinct ==
    \A i, j \in 1..Len(entries) : i # j => entries[i].id # entries[j].id

\* the amount is a number that is not negative
NonNegative(x) == ~IsNaN(x) /\ x[1] >= 0

\* the label holds a character that is not a blank
NonBlank(label) == \E k \in 1..Len(label) : label[k] # " "

\* C12: in every state reached from an empty entry list by form changes,
\* submits, edit starts, cancels and deletes, every entry has an amount >= 0,
\* a label that is not blank, a category that is not empty and the type
\* income or expense.
C12_EntriesAreValid ==
    \A i \in 1..Len(entries) :
        /\ NonNegative(entries[i].amount)
        /\ NonBlank(entries[i].label)
        /\ entries[i].category # ""
        /\ entries[i].type \in {"income", "expense"}

\* an entry has just been edited with the staged values, which had passed the
\* validation: the list holds two entries
C12_Witness ==
    /\ lastOp = "submitEdit"
    /\ Len(entries) = 2
    /\ entries[1].amount = Q(5, 2) /\ entries[1].label = <<"a">>
    /\ entries[1].category = "food"

----------------------------------------------------------------------------
(* Properties of the entry list and of the rendered list, for SpecFrame and *)
(* SpecView                                                                 *)

\* C13: the entry list changes only in a valid submit or a confirmed delete;
\* a change of the filter (with the recomputation of the sorted list that
\* follows it), of the display currency, of the dark mode or of a form field,
\* the start or the cancel of an edit, and the issue or the completion of a
\* rate fetch leave its values and order as they are.
C13_EntriesFrame ==
    [][entries' # entries
       => \/ SubmitStep /\ ~StagedInvalid
          \/ \E id \in RenderedIds : HandleDeleteEntry(id, TRUE)]_vars

\* the filter has just been set back to 'all' over two entries that are not
\* in the order of the sorted list, in dark mode, with EUR displayed and a
\* table fetched: the list is in creation order and the view in date order
C13_Witness ==
    /\ lastOp = "filter" /\ currentFilter = "all"
    /\ isDarkMode /\ currency = "EUR" /\ DOMAIN exchangeRates # {}
    /\ Len(entries) = 2
    /\ getTime(entries[1].date) < getTime(entries[2].date)
    /\ sortedEntries = <<entries[2], entries[1]>>

\* the indices of the entries that the filter lets through
Matching ==
    {i \in 1..Len(entries) : currentFilter = "all" \/ entries[i].type = currentFilter}

\* entry j is shown above entry i: it is later, or as late and earlier in the
\* list
ShownAbove(j, i) ==
    \/ getTime(entries[j].date) > getTime(entries[i].date)
    \/ getTime(entries[j].date) = getTime(entries[i].date) /\ j < i

\* the index of the entry in row k of the view
RowIndex(k) ==
    CHOOSE i \in Matching : Cardinality({j \in Matching : ShownAbove(j, i)}) = k - 1

\* C14: in every reachable state the rendered list holds each entry that
\* matches the filter (all of them under 'all', those of the chosen type
\* under 'income' and 'expense') once and nothing else, later dates first,
\* entries of equal date in the order of the entry list.
C14_ViewIsFilteredAndSorted ==
    /\ Len(sortedEntries) = Cardinality(Matching)
    /\ \A k \in 1..Len(sortedEntries) : sortedEntries[k] = entries[RowIndex(k)]

\* the filter 'expense' has just been chosen over an income and an expense:
\* the view shows the expense alone
C14_Witness ==
    /\ lastOp = "filter" /\ currentFilter = "expense"
    /\ Len(entries) = 2
    /\ entries[1].type = "income" /\ entries[2].type = "expense"
    /\ sortedEntries = <<entries[2]>>

----------------------------------------------------------------------------
(* Properties of edit mode, for SpecMode *)

\* C15: the form shows edit mode (the submit button reads Update Entry, the
\* Cancel button is there) exactly when an edit target is set; a cancel and a
\* valid submit in edit mode clear the target and put the defaults into the
\* form (type income, empty label, amount and category, the display currency
\* as entry currency); a cancel leaves the entry list as it is.
C15_EditMode ==
    /\ []((SubmitButtonText = "Update Entry") <=> (editingId # NULL))
    /\ [](CancelButtonShown <=> (editingId # NULL))
    /\ [][((SubmitStep /\ editingId # NULL /\ ~StagedInvalid) \/ HandleCancelEdit)
           => /\ editingId' = NULL
              /\ formValues' = [type |-> "income", label |-> <<>>, amount |-> <<>>,
                                category |-> "", entryCurrency |-> currency']]_vars
    /\ [][HandleCancelEdit => entries' = entries]_vars

\* an edit of the stored entry has just been cancelled with EUR displayed:
\* the entry is as stored and the form offers EUR
C15_Witness ==
    /\ lastOp = "cancelEdit"
    /\ currency = "EUR"
    /\ entries # <<>> /\ entries[1] = LegacyEntry
    /\ editingId = NULL
    /\ formValues.entryCurrency = "EUR" /\ formValues.label = <<>>

----------------------------------------------------------------------------
(* Properties of the rate table, for SpecFetch and SpecFetchLive *)

\* every currency of the known list at rate 1
KnownAtOne ==
    [c \in {"USD", "EUR", "GBP", "JPY", "INR", "CAD", "AUD", "CHF", "CNY", "SGD"} |-> <<1, 1>>]

\* C16: a failed fetch puts the table that maps every known currency to 1 in
\* the place of the rate table, and with that table convertCurrency between
\* any two known currencies returns the amount, a number, as it was given.
C16_FailureInstallsFallback ==
    /\ [][FetchFails => exchangeRates' = KnownAtOne]_vars
    /\ []((lastOp = "convert" /\ exchangeRates = KnownAtOne)
           => (conv.result = conv.amount /\ ~IsNaN(conv.result)))

\* after a failed fetch 5/2 EUR have been converted to GBP: 5/2
C16_Witness ==
    /\ lastOp = "convert"
    /\ exchangeRates = FallbackRates
    /\ conv.from = "EUR" /\ conv.to = "GBP" /\ conv.amount = Q(5, 2)
    /\ conv.result = Q(5, 2)

\* C17: in every reachable state the rate table is empty or maps USD to 1;
\* a fetch that completes leaves a table that is not empty, and a table that
\* is not empty never becomes empty, so that the empty table is there only
\* as long as no fetch has completed.
C17_BaseRateIsOne ==
    /\ [](\/ DOMAIN exchangeRates = {}
          \/ "USD" \in DOMAIN exchangeRates /\ exchangeRates["USD"] = <<1, 1>>)
    /\ [][FetchCompletes => DOMAIN exchangeRates' # {}]_vars
    /\ [][DOMAIN exchangeRates # {} => DOMAIN exchangeRates' # {}]_vars

\* a response that gave 2 for USD has just been installed, with 1 for USD
C17_Witness ==
    /\ lastOp = "fetchOk"
    /\ DOMAIN exchangeRates = {"USD", "EUR", "GBP"}
    /\ exchangeRates["USD"] = One /\ exchangeRates["GBP"] = Q(1, 2)

\* the table that a response with these rates leaves: its rates, and 1 for USD
TableOfResponse(rates) ==
    [c \in DOMAIN rates \cup {"USD"} |-> IF c = "USD" THEN <<1, 1>> ELSE rates[c]]

\* C18: issuing a fetch leaves the rate table as it is; the table changes
\* only in the step in which a fetch completes, and is then the table of the
\* response (its rates, USD at 1) or the fallback table, with nothing left of
\* the table before.
C18_TableReplacedAtOnce ==
    /\ [][IntervalFetch => exchangeRates' = exchangeRates]_vars
    /\ [][exchangeRates' # exchangeRates
           => /\ FetchCompletes
              /\ \/ exchangeRates' = KnownAtOne
                 \/ \E rates \in FetchResponses : exchangeRates' = TableOfResponse(rates)]_vars

\* a fetch has been issued while the table of an earlier response is in
\* effect: the table is still that one
C18_Witness ==
    /\ lastOp = "fetchIssued"
    /\ pending > 0
    /\ DOMAIN exchangeRates = {"USD", "EUR"} /\ exchangeRates["EUR"] = Q(9, 10)

\* C19: a fetch is outstanding at startup and each tick of the timer issues
\* one; if every fetch that was issued completes, the rate table is not
\* empty at some time after startup, and every tick is followed at some time
\* by a completion that replaces the table.
C19_FetchesComplete ==
    /\ pending > 0
    /\ [][IntervalFetch => pending' = pending + 1]_vars
    /\ <>(DOMAIN exchangeRates # {})
    /\ (lastOp = "fetchIssued") ~> (lastOp \in {"fetchOk", "fetchFailed"})

\* the one fetch that was out has just failed and left the fallback table
C19_Witness ==
    /\ lastOp = "fetchFailed"
    /\ pending = 0
    /\ exchangeRates = FallbackRates
    /\ ~ratesLoading

----------------------------------------------------------------------------
(* Properties of local storage, for SpecStorage *)

\* C20: a read or a write of local storage that fails, under any of the
\* three keys, is caught: no exception leaves the render or an effect.  A
\* read that failed or found an unparsable text gives the default: the
\* empty entry list, and when the storage threw also USD and light mode.
\* (The handlers set the state without reading the storage, so a failed
\* write leaves the state as the handler set it once no exception leaves
\* the effect.)
C20_StorageFailuresAreCaught ==
    /\ ~uncaughtError
    /\ lastOp = "initReadFailed"
        => /\ entries = <<>>
           /\ localStorage.throws => (currency = "USD" /\ ~isDarkMode)

----------------------------------------------------------------------------
(* Properties of the edit target, for SpecEdit *)

\* C22: in every reachable state in which an edit target is set, an entry of
\* the list has that id (a delete in edit mode does not leave the target
\* without its entry), so that a valid submit in edit mode updates an entry.
C22_EditTargetExists ==
    editingId # NULL => \E i \in 1..Len(entries) : entries[i].id = editingId

----------------------------------------------------------------------------
(* Properties of the division in convertCurrency, for SpecConv *)

\* C25: every division that convertCurrency evaluates has as divisor a rate
\* that the table holds and that is a number other than 0, whatever the
\* table, also when it holds 0 for the source.
C25_NoDivisionByZero ==
    \A d \in conv.divisors :
        /\ \E c \in DOMAIN exchangeRates : exchangeRates[c] = d
        /\ d # <<0, 1>>
        /\ d # <<0, 0>>

\* 5 EUR have been converted to GBP and back with a table that holds 1/2 for
\* EUR and 3 for GBP: both rates have been divided by
C25_Witness ==
    /\ conv.pc = "back"
    /\ conv.from = "EUR" /\ conv.to = "GBP" /\ conv.amount = Q(5, 1)
    /\ conv.divisors = {Q(1, 2), Q(3, 1)}
    /\ conv.result = Q(30, 1)

----------------------------------------------------------------------------
(* Properties of overlapping fetches, for SpecFetch *)

\* C23: the completion of a fetch that was issued before one that has
\* completed already does not replace the table: tables are installed in
\* the order of issue, and the table left when every fetch has completed is
\* that of the fetch issued last.
C23_InstalledInIssueOrder ==
    [][(FetchCompletes /\ overtaken' < overtaken)
        => exchangeRates' = exchangeRates]_vars

\* C24: in every reachable state ratesLoading is true exactly when a fetch
\* is outstanding, also when the timer has issued a fetch before an earlier
\* one completed.
C24_LoadingWhileOutstanding == ratesLoading <=> (pending > 0)

----------------------------------------------------------------------------
(* Properties of an edit that changes nothing, for SpecFrame *)

\* the values that handleEditEntry stages for the first entry with this id
StagedFor(id) ==
    LET first == CHOOSE i \in 1..Len(entries) :
                    /\ entries[i].id = id
                    /\ \A j \in 1..(i - 1) : entries[j].id # id
        entry == entries[first]
    IN  [type |-> entry.type, label |-> entry.label,
         amount |-> NumberToString(entry.amount), category |-> entry.category,
         entryCurrency |-> EntryCurrency(entry, currency)]

\* an edit is under way and the form holds what the edit start staged
StagedUntouched ==
    /\ editingId # NULL
    /\ \E i \in 1..Len(entries) : entries[i].id = editingId
    /\ formValues = StagedFor(editingId)

\* C26: a submit in edit mode with the form as the edit start staged it
\* leaves the entry list as it is, whatever the display currency has become
\* since the edit started.
C26_UntouchedEditChangesNothing ==
    [][(SubmitStep /\ StagedUntouched) => entries' = entries]_vars

----------------------------------------------------------------------------
(* Properties of persistence, for SpecPersist *)

\* what local storage holds is what the state holds: the text under
\* budgetEntries parses to the entry list, the string under budgetCurrency
\* is the display currency, the string under darkMode is 'enabled' in dark
\* mode and 'disabled' otherwise
StorageMatchesState ==
    /\ localStorage.items["budgetEntries"].kind = "json"
    /\ JSONparse(localStorage.items["budgetEntries"].value) = entries
    /\ localStorage.items["budgetCurrency"] = Item("string", currency)
    /\ localStorage.items["darkMode"]
         = Item("string", IF isDarkMode THEN "enabled" ELSE "disabled")

\* C21: with a storage that works, after every handler and the effects of
\* the render that follows it local storage holds the entry list, the
\* display currency and the dark mode of the state, and a reload of the page
\* starts with the same entry list, display currency and dark mode.
C21_StorageRefinesState ==
    /\ [](~localStorage.throws => StorageMatchesState)
    /\ [][Reload => /\ entries' = entries
                    /\ currency' = currency
                    /\ isDarkMode' = isDarkMode]_vars

\* the page has just been reloaded in dark mode with EUR displayed and two
\* entries, the stored expense after an edit of its amount and an entry
\* created with the form: storage holds the two and the reload has read them
C21_Witness ==
    /\ lastOp = "reload"
    /\ isDarkMode /\ currency = "EUR"
    /\ Len(entries) = 2
    /\ entries[1].id = 1 /\ entries[1].amount = Q(5, 2)
    /\ entries[2].id > 1 /\ entries[2].currency = "USD"
    /\ JSONparse(localStorage.items["budgetEntries"].value) = entries

====
